---- MODULE Spec2Model ----
(***************************************************************************)
(* Product analytics and A/B-test simulator over a ratings table.          *)
(*                                                                         *)
(*   analytics.py      prepare_events, build_cohorts, build_funnel,        *)
(*                     product_kpis                                        *)
(*   ab_test.py        random_assign_users, user_metric, srm_check,        *)
(*                     simulate_treatment_effect                           *)
(*   data_download.py  download_movielens                                  *)
(*   app.py            ensure_data, build_all, run_experiment              *)
(*                                                                         *)
(* Data frames are sequences (ordered rows) or sets (keyed rows) of        *)
(* records.  A float is a normalised rational [num, den]; NaN is 0/0 and   *)
(* +inf is 1/0.  A datetime is [date, tod]: the calendar day counted from  *)
(* 1970-01-01 and the second of that day.                                  *)
(***************************************************************************)
EXTENDS Integers, Sequences, FiniteSets, TLC

VARIABLES
    ratings,      \* the ratings table (userId, movieId, rating, timestamp)
    events,       \* PreparedData.events
    pc,           \* position of the analytics / experiment computation
    kpis,         \* result of product_kpis
    cohorts,      \* result of build_cohorts
    funnel,       \* result of build_funnel
    seed,         \* run_experiment's seed
    assignments,  \* the assignment table (user_id, variant)
    srm,          \* result of srm_check
    metric,       \* result of a user_metric call
    m,            \* run_experiment's per-user metrics (views_w7, pre_views)
    df,           \* result of simulate_treatment_effect
    rng,          \* state of the generator made last (-1: none made yet)
    calls,        \* the random_assign_users calls made so far, with their results
    fs,           \* the files under data/
    dlPc,         \* position of download_movielens
    fetches,      \* requests.get calls made so far
    dlCalls,      \* download_movielens calls made so far
    writes,       \* file writes made so far
    appPc,        \* position of the running handler
    appRaised,    \* the exception raised in the running handler ("none": none)
    appEscaped,   \* the exception that left a handler uncaught ("none": none)
    appRet,       \* what the running handler returned
    ui            \* the values the UI components show

analyticsVars == <<ratings, events, pc, kpis, cohorts, funnel>>
experimentVars == <<seed, assignments, srm, metric, m, df, rng, calls>>
downloadVars == <<fs, dlPc, fetches, dlCalls, writes>>
appVars == <<appPc, appRaised, appEscaped, appRet, ui>>

vars == <<analyticsVars, experimentVars, downloadVars, appVars>>

-----------------------------------------------------------------------------
(* Bounds and program constants *)

\* rows of a ratings table in the analytics specification
MaxRatingRows == 3

SECONDS_PER_DAY == 86400

\* ratings are kept in tenths of a star: 4 stars is 40, 4.5 stars is 45
LikeMinRating == 40
CommentMinRating == 45

RollingWindow == 30
MinPeriods == 1

\* rows of a ratings table in the funnel specification
MaxFunnelRows == 7

\* rows of a ratings table in the experiment specification
MaxExperimentRows == 4

\* random_assign_users calls in a history
MaxAssignCalls == 2

\* download_movielens calls in a run
MaxDownloadCalls == 3

\* cell counts of an assignment table handed to srm_check, in hundreds of users
MaxSrmHundreds == 10

ActivationDays == 3
ActivationViews == 5
Day7From == 7
Day7Until == 8

-----------------------------------------------------------------------------
(* Numbers *)

Min(S) == CHOOSE x \in S : \A y \in S : x <= y
Max(S) == CHOOSE x \in S : \A y \in S : x >= y
Abs(x) == IF x < 0 THEN -x ELSE x

RECURSIVE Gcd(_, _)
Gcd(a, b) == IF b = 0 THEN a ELSE Gcd(b, a % b)

NaN == [num |-> 0, den |-> 0]
Inf == [num |-> 1, den |-> 0]
IsNaN(x) == x.den = 0 /\ x.num = 0

\* the float n/d (d >= 0), in lowest terms
Rat(n, d) ==
    IF d = 0 THEN (IF n = 0 THEN NaN ELSE Inf)
    ELSE LET g == Gcd(Abs(n), d) IN [num |-> n \div g, den |-> d \div g]

Float(n) == Rat(n, 1)

\* float division a / b of non-negative floats (numpy: x/0 is inf, 0/0 is nan)
FDiv(a, b) ==
    IF IsNaN(a) \/ IsNaN(b) THEN NaN
    ELSE IF a.den = 0 /\ b.den = 0 THEN NaN
    ELSE IF a.den = 0 THEN Inf
    ELSE IF b.den = 0 THEN Float(0)
    ELSE Rat(a.num * b.den, a.den * b.num)

FAdd(a, b) ==
    IF IsNaN(a) \/ IsNaN(b) THEN NaN
    ELSE IF a.den = 0 \/ b.den = 0 THEN Inf
    ELSE Rat(a.num * b.den + b.num * a.den, a.den * b.den)

RECURSIVE SumInts(_)
SumInts(s) == IF s = <<>> THEN 0 ELSE s[1] + SumInts(Tail(s))

RECURSIVE SumFloats(_)
SumFloats(s) == IF s = <<>> THEN Float(0) ELSE FAdd(s[1], SumFloats(Tail(s)))

FSub(a, b) == Rat(a.num * b.den - b.num * a.den, a.den * b.den)
FMul(a, b) == Rat(a.num * b.num, a.den * b.den)

\* a <= b and a < b for finite floats
FLE(a, b) == a.num * b.den <= b.num * a.den
FLT(a, b) == a.num * b.den < b.num * a.den

\* Series.mean(): NaN for an empty series
MeanInts(s) == Rat(SumInts(s), Len(s))
MeanFloats(s) == FDiv(SumFloats(s), Float(Len(s)))

\* the members of a set of integers in ascending order
RECURSIVE Ascending(_)
Ascending(S) == IF S = {} THEN <<>> ELSE <<Min(S)>> \o Ascending(S \ {Min(S)})

Range(s) == {s[i] : i \in 1..Len(s)}

-----------------------------------------------------------------------------
(* Datetimes *)

\* pd.to_datetime(seconds, unit="s")
to_datetime(s) == [date |-> s \div SECONDS_PER_DAY, tod |-> s % SECONDS_PER_DAY]

\* (a - b).dt.total_seconds()
total_seconds(a, b) == (a.date - b.date) * SECONDS_PER_DAY + (a.tod - b.tod)

TsLE(a, b) == a.date < b.date \/ (a.date = b.date /\ a.tod <= b.tod)

MinTs(S) == CHOOSE t \in S : \A u \in S : TsLE(t, u)

\* ts.dt.to_period("W").dt.start_time: the Monday 00:00 that starts the week
\* (weeks end on Sunday; 1970-01-01, day 0, is a Thursday), as a day number
to_period_start(ts) == ts.date - ((ts.date + 3) % 7)

-----------------------------------------------------------------------------
(* analytics.prepare_events *)

\* frame: the ratings with columns renamed and ts added
RenamedWithTs(rt) ==
    [i \in 1..Len(rt) |->
        [user_id |-> rt[i].userId, item_id |-> rt[i].movieId,
         rating |-> rt[i].rating, ts |-> to_datetime(rt[i].timestamp)]]

EventRows(frame, kind) ==
    [i \in 1..Len(frame) |->
        [user_id |-> frame[i].user_id, item_id |-> frame[i].item_id,
         ts |-> frame[i].ts, event |-> kind]]

IsLikeRating(r) == r.rating >= LikeMinRating
IsCommentRatingLoose(r) == r.rating >= LikeMinRating
IsCommentRating(r) == r.rating >= CommentMinRating

views(frame) == EventRows(frame, "view")
likes(frame) == EventRows(SelectSeq(frame, IsLikeRating), "like")
maybe_comment(frame) == EventRows(SelectSeq(frame, IsCommentRating), "comment")

\* events.sort_values("ts"): ascending by ts; rows of equal ts are kept in
\* their order of arrival (no computation below reads the order of ties)
RECURSIVE sort_values_ts(_)
sort_values_ts(s) ==
    IF s = <<>> THEN <<>>
    ELSE LET rest == sort_values_ts(SubSeq(s, 1, Len(s) - 1))
             e == s[Len(s)]
             k == Cardinality({i \in 1..Len(rest) : TsLE(rest[i].ts, e.ts)})
         IN SubSeq(rest, 1, k) \o <<e>> \o SubSeq(rest, k + 1, Len(rest))

prepare_events(rt) ==
    LET frame == RenamedWithTs(rt)
    IN sort_values_ts(views(frame) \o likes(frame) \o maybe_comment(frame))

-----------------------------------------------------------------------------
(* Shared by the per-user computations *)

UserIds(ev) == {ev[i].user_id : i \in 1..Len(ev)}
RowsOf(ev, u) == {i \in 1..Len(ev) : ev[i].user_id = u}

-----------------------------------------------------------------------------
(* analytics.build_cohorts(events, period="W") *)

\* first: each user's earliest period
CohortOfDay(ev) ==
    [u \in UserIds(ev) |-> Min({ev[i].ts.date : i \in RowsOf(ev, u)})]
first(ev) ==
    [u \in UserIds(ev) |-> Min({to_period_start(ev[i].ts) : i \in RowsOf(ev, u)})]

\* groupby(["cohort","period"])["user_id"].nunique()
retention(ev) ==
    LET cohort == first(ev)
        key(i) == <<cohort[ev[i].user_id], to_period_start(ev[i].ts)>>
        keys == {key(i) : i \in 1..Len(ev)}
    IN {[cohort |-> k[1], period |-> k[2],
         active_users |-> Cardinality({ev[i].user_id : i \in {j \in 1..Len(ev) : key(j) = k}})]
        : k \in keys}

sizes(ret) ==
    {[cohort |-> r.cohort, cohort_size |-> r.active_users] : r \in {x \in ret : x.period = x.cohort}}

\* retention.merge(sizes, on="cohort", how="left") and the retention_rate column
MergeSizes(ret, sz) ==
    UNION {
        LET hit == {s \in sz : s.cohort = r.cohort}
            row(size) == [cohort |-> r.cohort, period |-> r.period,
                          active_users |-> r.active_users, cohort_size |-> size,
                          retention_rate |-> FDiv(Float(r.active_users), size)]
        IN IF hit = {} THEN {row(NaN)} ELSE {row(Float(s.cohort_size)) : s \in hit}
        : r \in ret}

CohortRowLE(a, b) == a.cohort < b.cohort \/ (a.cohort = b.cohort /\ a.period <= b.period)

\* out.sort_values(["cohort","period"])
RECURSIVE SortCohortRows(_)
SortCohortRows(S) ==
    IF S = {} THEN <<>>
    ELSE LET least == CHOOSE x \in S : \A y \in S : CohortRowLE(x, y)
         IN <<least>> \o SortCohortRows(S \ {least})

build_cohorts(ev) ==
    LET ret == retention(ev) IN SortCohortRows(MergeSizes(ret, sizes(ret)))

-----------------------------------------------------------------------------
(* analytics.build_funnel *)

\* first_ts: each user's earliest event timestamp
t0(ev) == [u \in UserIds(ev) |-> MinTs({ev[i].ts : i \in RowsOf(ev, u)})]

\* ev["days_since"]: seconds since the user's t0 over SECONDS_PER_DAY.  Both are
\* integers below 2^53, so the float quotient compares with a whole number of
\* days exactly as the rational does.
days_since(ev, i) == Rat(total_seconds(ev[i].ts, t0(ev)[ev[i].user_id]), SECONDS_PER_DAY)

\* ev[["user_id","t0"]].drop_duplicates()
FunnelUsers(ev) == {[user_id |-> u, t0 |-> t0(ev)[u]] : u \in UserIds(ev)}

step1(users) == {[user_id |-> r.user_id, t0 |-> r.t0, step1 |-> 1] : r \in users}

\* groupby("user_id").size() of the selected rows: one row per user that has any
GroupSize(ev, sel) ==
    {[user_id |-> u, size |-> Cardinality(sel \cap RowsOf(ev, u))]
        : u \in {ev[i].user_id : i \in sel}}

activated(ev) ==
    GroupSize(ev, {i \in 1..Len(ev) :
        ev[i].event = "view" /\ FLE(days_since(ev, i), Float(ActivationDays))})

step2_users(ev) ==
    {[user_id |-> a.user_id, step |-> 1] : a \in {x \in activated(ev) : x.size >= ActivationViews}}

week1(ev) ==
    GroupSize(ev, {i \in 1..Len(ev) :
        /\ FLE(Float(Day7From), days_since(ev, i))
        /\ FLT(days_since(ev, i), Float(Day7Until))})

step3_users_counted(ev) ==
    {[user_id |-> w.user_id, step |-> w.size] : w \in {x \in week1(ev) : x.size > 0}}
step3_users(ev) ==
    {[user_id |-> w.user_id, step |-> 1] : w \in {x \in week1(ev) : x.size > 0}}

\* the joined column of a left merge on user_id followed by fillna(0)
JoinedStep(table, u) ==
    LET hit == {r.step : r \in {x \in table : x.user_id = u}}
    IN IF hit = {} THEN {0} ELSE hit

\* users.merge(step1).merge(step2_users).merge(step3_users).fillna(0)
FunnelFrame(ev) ==
    LET users == FunnelUsers(ev)
        s1 == step1(users)
        s2 == step2_users(ev)
        s3 == step3_users(ev)
    IN UNION {UNION {
          {[user_id |-> u.user_id, step1 |-> a.step1, step2 |-> b, step3 |-> c]
              : b \in JoinedStep(s2, u.user_id), c \in JoinedStep(s3, u.user_id)}
          : a \in {x \in s1 : x.user_id = u.user_id}}
          : u \in users}

RECURSIVE SumColumn(_, _)
SumColumn(frame, col) ==
    IF frame = {} THEN 0
    ELSE LET r == CHOOSE x \in frame : TRUE IN r[col] + SumColumn(frame \ {r}, col)

build_funnel(ev) ==
    LET frame == FunnelFrame(ev)
        users == <<SumColumn(frame, "step1"), SumColumn(frame, "step2"), SumColumn(frame, "step3")>>
    IN [status |-> "ok",
        step |-> <<"signup", "activation(5 views in 3d)", "day7_retention">>,
        users |-> users,
        rate_vs_signup |-> [k \in 1..3 |-> FDiv(Float(users[k]), Float(users[1]))]]

-----------------------------------------------------------------------------
(* analytics.product_kpis *)

ObservedDates(ev) == Ascending({ev[i].ts.date : i \in 1..Len(ev)})

UsersOn(ev, d) == {ev[i].user_id : i \in {j \in 1..Len(ev) : ev[j].ts.date = d}}
EventsOn(ev, d) == Cardinality({j \in 1..Len(ev) : ev[j].ts.date = d})

\* ev.groupby("date")["user_id"].nunique(): one row per observed date
DAU(ev) == LET ds == ObservedDates(ev) IN [k \in 1..Len(ds) |-> Cardinality(UsersOn(ev, ds[k]))]

\* groupby(pd.Grouper(freq="D")).nunique(): one bin per calendar day from the
\* first to the last date, 0 for a day without events
DailyBins(ev) ==
    IF ev = <<>> THEN <<>>
    ELSE LET ds == ObservedDates(ev)
             lo == ds[1]
             hi == ds[Len(ds)]
         IN [k \in 1..(hi - lo + 1) |-> Cardinality(UsersOn(ev, lo + k - 1))]

\* .rolling(RollingWindow, min_periods=MinPeriods).mean()
RollingMean(s) ==
    [k \in 1..Len(s) |->
        LET from == Max({1, k - RollingWindow + 1})
        IN IF k - from + 1 < MinPeriods THEN NaN ELSE MeanInts(SubSeq(s, from, k))]

product_kpis(ev) ==
    LET dau == DAU(ev)
        values == RollingMean(DailyBins(ev))
        ds == ObservedDates(ev)
        perDay == [k \in 1..Len(ds) |-> EventsOn(ev, ds[k])]
    IN IF Len(values) # Len(dau)
       THEN [status |-> "ValueError", dau |-> dau, mau_rolling |-> <<>>,
             avg_DAU |-> NaN, peak_DAU |-> NaN, dau_mau |-> NaN, avg_daily_events |-> NaN]
       ELSE [status |-> "ok", dau |-> dau, mau_rolling |-> values,
             avg_DAU |-> MeanInts(dau),
             peak_DAU |-> IF dau = <<>> THEN NaN ELSE Float(Max(Range(dau))),
             \* mean(DAU) / (mean(MAU_rolling) + 1e-9): the quotient without the 1e-9
             dau_mau |-> FDiv(MeanInts(dau), MeanFloats(values)),
             avg_daily_events |-> MeanInts(perDay)]

-----------------------------------------------------------------------------
(* numpy's Generator.  default_rng(seed) builds a new generator whose state   *)
(* is a function of the seed alone; every draw reads the state and advances   *)
(* it.  The 64-state congruential sequence stands for PCG64; a uniform draw   *)
(* is kept in hundredths.                                                     *)

SeedState(sd) == (sd * 37 + 11) % 64

default_rng_shared(sd) == IF rng = -1 THEN SeedState(sd) ELSE rng
default_rng(sd) == SeedState(sd)

Advance(g) == (g * 21 + 13) % 64

RECURSIVE AdvanceBy(_, _)
AdvanceBy(g, n) == IF n = 0 THEN g ELSE AdvanceBy(Advance(g), n - 1)

Uniform(g) == (g * 100) \div 64

\* rng.random(n)
random(g, n) == [k \in 1..n |-> Uniform(AdvanceBy(g, k - 1))]

\* rng.normal(0, 0.5, size=n), in hundredths
normal(g, n) == [k \in 1..n |-> Uniform(AdvanceBy(g, k - 1)) - 50]

-----------------------------------------------------------------------------
(* ab_test.random_assign_users; p_treat is in hundredths *)

random_assign_users(users, sd, p_treat) ==
    LET g == default_rng(sd)
        draws == random(g, Len(users))
    IN [frame |-> [k \in 1..Len(users) |->
                     [user_id |-> users[k],
                      variant |-> IF draws[k] < p_treat THEN "T" ELSE "C"]],
        draws |-> draws,
        rng |-> AdvanceBy(g, Len(users))]

-----------------------------------------------------------------------------
(* ab_test.user_metric *)

first_ts_global(ev) == [u \in UserIds(ev) |-> MinTs({ev[i].ts : i \in 1..Len(ev)})]
first_ts(ev) == [u \in UserIds(ev) |-> MinTs({ev[i].ts : i \in RowsOf(ev, u)})]

metric_days_since(ev, i) ==
    Rat(total_seconds(ev[i].ts, first_ts(ev)[ev[i].user_id]), 86400)

in_win(ev, window_days) ==
    {i \in 1..Len(ev) :
        ev[i].event = "view" /\ FLE(metric_days_since(ev, i), Float(window_days))}

\* the rows of a groupby("user_id") result, ascending by user_id
RECURSIVE ByUser(_)
ByUser(S) ==
    IF S = {} THEN <<>>
    ELSE LET r == CHOOSE x \in S : \A y \in S : x.user_id <= y.user_id
         IN <<r>> \o ByUser(S \ {r})

user_metric(ev, window_days) ==
    [status |-> "ok", window |-> window_days, rows |-> ByUser(GroupSize(ev, in_win(ev, window_days)))]

-----------------------------------------------------------------------------
(* ab_test.srm_check *)

expected_whole(total) == Float(total)
expected(total) == Rat(total, 2)

\* 1 - chi2.cdf(x, df=1), in millionths: an enclosure lo <= p <= hi from the
\* values of the survival function at 0.01, 0.5, 3, 6.63 and 10.83
chi2_sf(x) ==
    IF IsNaN(x) THEN [nan |-> TRUE, lo |-> 0, hi |-> 0]
    ELSE IF x.den = 0 THEN [nan |-> FALSE, lo |-> 0, hi |-> 0]
    ELSE IF x.num = 0 THEN [nan |-> FALSE, lo |-> 1000000, hi |-> 1000000]
    ELSE IF FLT(x, Rat(1, 100)) THEN [nan |-> FALSE, lo |-> 920344, hi |-> 1000000]
    ELSE IF FLT(x, Rat(1, 2)) THEN [nan |-> FALSE, lo |-> 479500, hi |-> 920345]
    ELSE IF FLT(x, Float(3)) THEN [nan |-> FALSE, lo |-> 83264, hi |-> 479501]
    ELSE IF FLT(x, Rat(663, 100)) THEN [nan |-> FALSE, lo |-> 10027, hi |-> 83265]
    ELSE IF FLT(x, Rat(1083, 100)) THEN [nan |-> FALSE, lo |-> 998, hi |-> 10028]
    ELSE [nan |-> FALSE, lo |-> 0, hi |-> 999]

srm_check(a) ==
    LET nT == Cardinality({k \in 1..Len(a) : a[k].variant = "T"})
        nC == Cardinality({k \in 1..Len(a) : a[k].variant = "C"})
        total == nT + nC
        e == expected(total)
        cell(observed) ==
            FDiv(FMul(FSub(Float(observed), e), FSub(Float(observed), e)), e)
        chi2 == FAdd(cell(nT), cell(nC))
    IN [status |-> "ok", chi2 |-> chi2, p |-> chi2_sf(chi2)]

-----------------------------------------------------------------------------
(* ab_test.simulate_treatment_effect; lift_pct is in hundredths, y in        *)
(* hundredths of a view                                                      *)

fillna_skipped(v) == v
fillna_C(v) == IF v = "NaN" THEN "C" ELSE v

\* metric_df.merge(assignments, on="user_id", how="left").fillna("C"); the
\* numeric columns of the metric frames built here hold no NaN
RECURSIVE MergeVariant(_, _)
MergeVariant(mrows, arows) ==
    IF mrows = <<>> THEN <<>>
    ELSE LET r == Head(mrows)
             Hit(a) == a.user_id = r.user_id
             hits == SelectSeq(arows, Hit)
             row(v) == [user_id |-> r.user_id, views_w7 |-> r.views_w7,
                        pre_views |-> r.pre_views, variant |-> fillna_C(v)]
         IN (IF hits = <<>> THEN <<row("NaN")>>
             ELSE [j \in 1..Len(hits) |-> row(hits[j].variant)])
            \o MergeVariant(Tail(mrows), arows)

simulate_treatment_effect(mrows, arows, lift_pct, sd) ==
    LET merged == MergeVariant(mrows, arows)
        g == default_rng(sd)
        noise == normal(g, Len(merged))
    IN [frame |-> [k \in 1..Len(merged) |->
                     [user_id |-> merged[k].user_id, views_w7 |-> merged[k].views_w7,
                      pre_views |-> merged[k].pre_views, variant |-> merged[k].variant,
                      y |-> IF merged[k].variant = "T"
                            THEN merged[k].views_w7 * (100 + lift_pct) + noise[k]
                            ELSE merged[k].views_w7 * 100 + noise[k]]],
        rng |-> AdvanceBy(g, Len(merged))]

-----------------------------------------------------------------------------
(* app.run_experiment, steps 2 to 4 *)

\* Series.drop_duplicates(): the first occurrence of every value, in order
RECURSIVE drop_duplicates(_)
drop_duplicates(s) ==
    IF s = <<>> THEN <<>>
    ELSE LET init == drop_duplicates(SubSeq(s, 1, Len(s) - 1))
             x == s[Len(s)]
         IN IF x \in Range(init) THEN init ELSE Append(init, x)

\* m7.merge(m1, on="user_id", how="left").fillna(0); m1 has one row per user
MergeMetrics(m7, m1) ==
    [k \in 1..Len(m7.rows) |->
        LET hit == {j \in 1..Len(m1.rows) : m1.rows[j].user_id = m7.rows[k].user_id}
        IN [user_id |-> m7.rows[k].user_id,
            views_w7 |-> m7.rows[k].size,
            pre_views |-> IF hit = {} THEN 0 ELSE m1.rows[CHOOSE j \in hit : TRUE].size]]

\* lines 125-132: the columns the statistics need, variant without NaN
EnsureColumns(rows) ==
    [k \in 1..Len(rows) |->
        [rows[k] EXCEPT !.variant = IF @ = "NaN" THEN "C" ELSE @]]

-----------------------------------------------------------------------------------------------------------------------------------------------------
(* Ratings tables.  A table is read row by row out of a sequence of possible  *)
(* rows.  Row order is taken up to permutation (a row read is not before the  *)
(* previous one in that sequence): the functions above group, filter and join *)
(* by value, and prepare_events re-sorts by ts.                               *)

RECURSIVE SetToSeq(_)
SetToSeq(S) == IF S = {} THEN <<>> ELSE LET x == CHOOSE y \in S : TRUE IN <<x>> \o SetToSeq(S \ {x})

RowIndex(rs, r) == CHOOSE i \in 1..Len(rs) : rs[i] = r

NextRows(rs, table) ==
    {rs[i] : i \in (IF table = <<>> THEN 1 ELSE RowIndex(rs, table[Len(table)]))..Len(rs)}

RatingRow(u, item, r, t) == [userId |-> u, movieId |-> item, rating |-> r, timestamp |-> t]

\* two users, two items, a rating below 4, at 4 and at 4.5; Thursday 1970-01-01,
\* the next day, and Monday 1970-01-05 (the next week, after a two-day gap)
AnalyticsRows ==
    SetToSeq({RatingRow(u, item, r, t) : u \in {1, 2}, item \in {1, 2}, r \in {35, 40, 45},
                                      t \in {0, SECONDS_PER_DAY, 4 * SECONDS_PER_DAY}})

-----------------------------------------------------------------------------
(* The analytics computations over one table *)

NotRun == [status |-> "not_run"]

Csvs == {"ratings.csv", "users.csv", "movies.csv"}
Files == Csvs \cup {"ml-1m.zip"}

AnalyticsFresh ==
    /\ events = <<>>
    /\ kpis = NotRun
    /\ cohorts = NotRun
    /\ funnel = NotRun

AnalyticsIdle ==
    /\ ratings = <<>>
    /\ pc = "off"
    /\ AnalyticsFresh

ExperimentIdle ==
    /\ seed = 0
    /\ assignments = <<>>
    /\ srm = NotRun
    /\ metric = NotRun
    /\ m = <<>>
    /\ df = NotRun
    /\ rng = -1
    /\ calls = <<>>

DownloadIdle ==
    /\ fs = [f \in Files |-> "absent"]
    /\ dlPc = "idle"
    /\ fetches = 0
    /\ dlCalls = 0
    /\ writes = 0

Idle == [handler |-> "idle", at |-> "idle", upload |-> FALSE]
NoException == [at |-> "none", kind |-> "none"]

AppIdle ==
    /\ appPc = Idle
    /\ appRaised = NoException
    /\ appEscaped = "none"
    /\ appRet = <<>>
    /\ ui = [build_all |-> <<>>, run_experiment |-> <<>>]

\* one more row of the ratings file
ReadRating(rs, maxLen) ==
    /\ pc = "ratings"
    /\ Len(ratings) < maxLen
    /\ \E r \in NextRows(rs, ratings) : ratings' = Append(ratings, r)
    /\ UNCHANGED <<events, pc, kpis, cohorts, funnel>>
    /\ UNCHANGED <<experimentVars, downloadVars, appVars>>

ReadAnalyticsRating == ReadRating(AnalyticsRows, MaxRatingRows)

InitAnalytics ==
    /\ ratings = <<>>
    /\ pc = "ratings"
    /\ AnalyticsFresh
    /\ ExperimentIdle
    /\ DownloadIdle
    /\ AppIdle

PrepareEvents ==
    /\ pc = "ratings"
    /\ events' = prepare_events(ratings)
    /\ rng' = default_rng(42)
    /\ pc' = "events"
    /\ UNCHANGED <<ratings, kpis, cohorts, funnel>>
    /\ UNCHANGED <<seed, assignments, srm, metric, m, df, calls>>
    /\ UNCHANGED <<downloadVars, appVars>>

ProductKpis ==
    /\ pc = "events"
    /\ kpis' = product_kpis(events)
    /\ pc' = "done"
    /\ UNCHANGED <<ratings, events, cohorts, funnel>>
    /\ UNCHANGED <<experimentVars, downloadVars, appVars>>

BuildCohorts ==
    /\ pc = "events"
    /\ cohorts' = [status |-> "ok", rows |-> build_cohorts(events)]
    /\ pc' = "done"
    /\ UNCHANGED <<ratings, events, kpis, funnel>>
    /\ UNCHANGED <<experimentVars, downloadVars, appVars>>

NextAnalytics == ReadAnalyticsRating \/ PrepareEvents \/ ProductKpis \/ BuildCohorts

SpecAnalytics == InitAnalytics /\ [][NextAnalytics]_vars

-----------------------------------------------------------------------------
(* The funnel over one table *)

\* two users, every row rated 4 (a view and a like); t0, the end of the
\* activation window and one second after it, day 7 and day 8
FunnelRows ==
    SetToSeq({RatingRow(u, 1, 40, t) : u \in {1, 2},
        t \in {0, 3 * SECONDS_PER_DAY, 3 * SECONDS_PER_DAY + 1, 7 * SECONDS_PER_DAY, 8 * SECONDS_PER_DAY}})

ReadFunnelRating == ReadRating(FunnelRows, MaxFunnelRows)

InitFunnel ==
    /\ ratings = <<>>
    /\ pc = "ratings"
    /\ AnalyticsFresh
    /\ ExperimentIdle
    /\ DownloadIdle
    /\ AppIdle

BuildFunnel ==
    /\ pc = "events"
    /\ funnel' = build_funnel(events)
    /\ pc' = "done"
    /\ UNCHANGED <<ratings, events, kpis, cohorts>>
    /\ UNCHANGED <<experimentVars, downloadVars, appVars>>

NextFunnel == ReadFunnelRating \/ PrepareEvents \/ BuildFunnel

SpecFunnel == InitFunnel /\ [][NextFunnel]_vars

-----------------------------------------------------------------------------
(* The experiment over one table: run_experiment's steps, and direct calls   *)
(* of user_metric and simulate_treatment_effect                              *)

\* two users; a view, or a view and a like; t0 at second 0 or 1, and one day
\* and seven days after second 1
ExperimentRows ==
    SetToSeq({RatingRow(u, 1, r, t) : u \in {1, 2}, r \in {35, 40},
        t \in {0, 1, SECONDS_PER_DAY + 1, 7 * SECONDS_PER_DAY + 1}})

Seeds == {7, 42}
Lifts == {0, 12}
Windows == {0, 1, 7}

ReadExperimentRating == ReadRating(ExperimentRows, MaxExperimentRows)

InitExperiment ==
    /\ ratings = <<>>
    /\ pc = "ratings"
    /\ AnalyticsFresh
    /\ ExperimentIdle
    /\ DownloadIdle
    /\ AppIdle

\* a direct call user_metric(events, window_days)
UserMetric ==
    /\ pc = "events"
    /\ \E w \in Windows : metric' = user_metric(events, w)
    /\ pc' = "done"
    /\ UNCHANGED <<ratings, events, kpis, cohorts, funnel>>
    /\ UNCHANGED <<seed, assignments, srm, m, df, rng, calls>>
    /\ UNCHANGED <<downloadVars, appVars>>

\* run_experiment, step 2: the assignment and its SRM p-value
RunAssign ==
    /\ pc = "events"
    /\ \E sd \in Seeds :
          LET users == drop_duplicates([i \in 1..Len(events) |-> events[i].user_id])
              res == random_assign_users(users, sd, 50)
          IN /\ seed' = sd
             /\ assignments' = res.frame
             /\ rng' = res.rng
             /\ srm' = srm_check(res.frame)
    /\ pc' = "assigned"
    /\ UNCHANGED <<ratings, events, kpis, cohorts, funnel>>
    /\ UNCHANGED <<metric, m, df, calls>>
    /\ UNCHANGED <<downloadVars, appVars>>

\* run_experiment, step 3: the 7-day views and the 1-day covariate
RunMetrics ==
    /\ pc = "assigned"
    /\ m' = MergeMetrics(user_metric(events, 7), user_metric(events, 1))
    /\ pc' = IF m' = <<>> THEN "insufficient" ELSE "metrics"
    /\ UNCHANGED <<ratings, events, kpis, cohorts, funnel>>
    /\ UNCHANGED <<seed, assignments, srm, metric, df, rng, calls>>
    /\ UNCHANGED <<downloadVars, appVars>>

\* run_experiment, step 4
RunSimulate ==
    /\ pc = "metrics"
    /\ \E lift \in Lifts :
          LET res == simulate_treatment_effect(m, assignments, lift, seed)
          IN /\ df' = [status |-> "run", given |-> assignments, lift_pct |-> lift,
                       rows |-> EnsureColumns(res.frame)]
             /\ rng' = res.rng
    /\ pc' = "simulated"
    /\ UNCHANGED <<ratings, events, kpis, cohorts, funnel>>
    /\ UNCHANGED <<seed, assignments, srm, metric, m, calls>>
    /\ UNCHANGED <<downloadVars, appVars>>

\* the assignment tables that keep a part of the rows of a
SubTables(a) ==
    {SelectSeq([k \in 1..Len(a) |-> [row |-> a[k], k |-> k]], LAMBDA x : x.k \in keep)
        : keep \in SUBSET (1..Len(a))}

Rows(indexed) == [k \in 1..Len(indexed) |-> indexed[k].row]

\* a direct call simulate_treatment_effect(m, a, lift, seed) with an assignment
\* table that may lack users
SimulateCall ==
    /\ pc = "metrics"
    /\ \E lift \in Lifts, sub \in SubTables(assignments) :
          LET res == simulate_treatment_effect(m, Rows(sub), lift, seed)
          IN /\ df' = [status |-> "call", given |-> Rows(sub), lift_pct |-> lift,
                       rows |-> res.frame]
             /\ rng' = res.rng
    /\ pc' = "done"
    /\ UNCHANGED <<ratings, events, kpis, cohorts, funnel>>
    /\ UNCHANGED <<seed, assignments, srm, metric, m, calls>>
    /\ UNCHANGED <<downloadVars, appVars>>

NextExperiment ==
    ReadExperimentRating \/ PrepareEvents \/ UserMetric \/ RunAssign \/ RunMetrics \/ RunSimulate \/ SimulateCall

SpecExperiment == InitExperiment /\ [][NextExperiment]_vars

-----------------------------------------------------------------------------
(* Repeated calls of random_assign_users *)

UserLists == {<<>>, <<1>>, <<2>>, <<1, 2>>, <<2, 1>>, <<1, 2, 3>>}
PTreats == {0, 50, 100}

InitAssign ==
    /\ AnalyticsIdle
    /\ ExperimentIdle
    /\ DownloadIdle
    /\ AppIdle

RandomAssignUsers ==
    /\ Len(calls) < MaxAssignCalls
    /\ \E users \in UserLists, sd \in Seeds, p \in PTreats :
          LET res == random_assign_users(users, sd, p)
          IN /\ calls' = Append(calls, [users |-> users, seed |-> sd, p_treat |-> p,
                                        draws |-> res.draws, frame |-> res.frame])
             /\ rng' = res.rng
    /\ UNCHANGED <<seed, assignments, srm, metric, m, df>>
    /\ UNCHANGED <<analyticsVars, downloadVars, appVars>>

NextAssign == RandomAssignUsers

SpecAssign == InitAssign /\ [][NextAssign]_vars

-----------------------------------------------------------------------------
(* srm_check over assignment tables of given cell counts *)

\* a table of nT Treatment rows followed by nC Control rows
CountTable(nT, nC) ==
    [k \in 1..(nT + nC) |-> [user_id |-> k, variant |-> IF k <= nT THEN "T" ELSE "C"]]

SrmCounts == {100 * h : h \in 0..MaxSrmHundreds}

InitSrm ==
    /\ AnalyticsIdle
    /\ DownloadIdle
    /\ AppIdle
    /\ seed = 0
    /\ \E nT \in SrmCounts, nC \in SrmCounts : assignments = CountTable(nT, nC)
    /\ srm = NotRun
    /\ metric = NotRun
    /\ m = <<>>
    /\ df = NotRun
    /\ rng = -1
    /\ calls = <<>>

SrmCheck ==
    /\ srm = NotRun
    /\ srm' = srm_check(assignments)
    /\ UNCHANGED <<seed, assignments, metric, m, df, rng, calls>>
    /\ UNCHANGED <<analyticsVars, downloadVars, appVars>>

NextSrm == SrmCheck

SpecSrm == InitSrm /\ [][NextSrm]_vars

-----------------------------------------------------------------------------
(* data_download.download_movielens.  A file is "absent", "present" (there    *)
(* before the first call), "written" (by a call) or "partial" (a write that   *)
(* failed part-way); all but "absent" exist.                                  *)

Exists(f) == fs[f] # "absent"

AnyCsvExists == \E f \in Csvs : Exists(f)
AllCsvsExist == \A f \in Csvs : Exists(f)

InitDownload ==
    /\ AnalyticsIdle
    /\ ExperimentIdle
    /\ AppIdle
    /\ fs \in [Files -> {"absent", "present"}]
    /\ dlPc = "idle"
    /\ fetches = 0
    /\ dlCalls = 0
    /\ writes = 0

\* the call and its early return
DownloadCall ==
    /\ dlPc = "idle"
    /\ dlCalls < MaxDownloadCalls
    /\ dlCalls' = dlCalls + 1
    /\ dlPc' = IF AllCsvsExist THEN "returned" ELSE "get"
    /\ UNCHANGED <<fs, fetches, writes>>
    /\ UNCHANGED <<analyticsVars, experimentVars, appVars>>

\* requests.get and raise_for_status
DownloadGet ==
    /\ dlPc = "get"
    /\ fetches' = fetches + 1
    /\ \/ dlPc' = "write_zip"
       \/ dlPc' = "raised"
    /\ UNCHANGED <<fs, dlCalls, writes>>
    /\ UNCHANGED <<analyticsVars, experimentVars, appVars>>

\* a write of file f that succeeds, or fails before or after creating the file
WriteFile(f, then) ==
    /\ writes' = writes + 1
    /\ \/ fs' = [fs EXCEPT ![f] = "written"] /\ dlPc' = then
       \/ fs' = fs /\ dlPc' = "raised"
       \/ fs' = [fs EXCEPT ![f] = "partial"] /\ dlPc' = "raised"
    /\ UNCHANGED <<fetches, dlCalls>>
    /\ UNCHANGED <<analyticsVars, experimentVars, appVars>>

\* DEST.write_bytes(r.content)
DownloadWriteZip == dlPc = "write_zip" /\ WriteFile("ml-1m.zip", "parse")

\* the three read_csv calls on the archive's members
DownloadParse ==
    /\ dlPc = "parse"
    /\ \/ dlPc' = "save_ratings"
       \/ dlPc' = "raised"
    /\ UNCHANGED <<fs, fetches, dlCalls, writes>>
    /\ UNCHANGED <<analyticsVars, experimentVars, appVars>>

DownloadSaveRatings == dlPc = "save_ratings" /\ WriteFile("ratings.csv", "save_users")
DownloadSaveUsers == dlPc = "save_users" /\ WriteFile("users.csv", "save_movies")
DownloadSaveMovies == dlPc = "save_movies" /\ WriteFile("movies.csv", "returned")

\* the caller goes on after the return or the exception
DownloadOver ==
    /\ dlPc \in {"returned", "raised"}
    /\ dlPc' = "idle"
    /\ UNCHANGED <<fs, fetches, dlCalls, writes>>
    /\ UNCHANGED <<analyticsVars, experimentVars, appVars>>

NextDownload ==
    \/ DownloadCall
    \/ DownloadGet
    \/ DownloadWriteZip
    \/ DownloadParse
    \/ DownloadSaveRatings
    \/ DownloadSaveUsers
    \/ DownloadSaveMovies
    \/ DownloadOver

SpecDownload == InitDownload /\ [][NextDownload]_vars

-----------------------------------------------------------------------------
(* app.build_all and app.run_experiment: the calls of each handler in order,  *)
(* each of which returns or raises, and the handlers' except clauses.         *)

\* the exceptions the calls raise: a bad upload or a frame-length mismatch, a
\* missing column, a file or network error
ExceptionKinds == {"ValueError", "KeyError", "OSError"}

\* subclasses of Exception among them
ExceptionSubclasses == {"ValueError", "KeyError", "OSError"}

only_ValueError(kind) == kind = "ValueError"

\* except Exception as e, in build_all and in run_experiment
handler_catches(kind) == kind \in ExceptionSubclasses

\* except Exception as e, in ensure_data
ensure_data_catches(kind) == kind \in ExceptionSubclasses

BuildAllSteps ==
    <<"load", "prepare_events", "product_kpis", "build_cohorts", "build_funnel", "kpi_txt">>

RunExperimentSteps ==
    <<"load", "prepare_events", "random_assign_users", "user_metric",
      "simulate_treatment_effect", "ttest_and_ci", "cuped_adjust", "summary", "histogram">>

StepsOf(h) == IF h = "build_all" THEN BuildAllSteps ELSE RunExperimentSteps

StepIndex(h, at) == CHOOSE i \in 1..Len(StepsOf(h)) : StepsOf(h)[i] = at

None == "None"
EmptyDataFrame == "DataFrame()"

Message(mark, text, e) == [mark |-> mark, text |-> text, e |-> e]

BuildAllOk ==
    <<"events.head(1000)", "cohort_fig", "funnel_fig", "kpi_txt",
      Message("ok", "Data ready.", "none")>>

RunExperimentOk ==
    <<Message("ok", "summary", "none"), "fig", "df_plain.head(20)">>

RunExperimentInsufficient ==
    <<Message("warning", "Not enough per-user data to compute 7-day views.", "none"),
      None, EmptyDataFrame>>

\* the return of the "if err:" branch
ErrReturn(h, kind) ==
    IF h = "build_all"
    THEN <<None, None, None, None, Message("error", "Download/parse failed:", kind)>>
    ELSE <<Message("error", "Download/parse failed:", kind), None, EmptyDataFrame>>

\* the return of the except clause
ExceptReturn(h, kind) ==
    IF h = "build_all"
    THEN <<None, None, None, None, Message("error", "Error:", kind)>>
    ELSE <<Message("error", "Exception in simulation:", kind), None, EmptyDataFrame>>

InitApp ==
    /\ AnalyticsIdle
    /\ ExperimentIdle
    /\ DownloadIdle
    /\ AppIdle

\* the Build/Refresh button, with or without an uploaded file
BuildAllCall ==
    /\ appPc = Idle
    /\ \E upload \in BOOLEAN :
         appPc' = [handler |-> "build_all", at |-> "load", upload |-> upload]
    /\ appRaised' = NoException
    /\ appRet' = <<>>
    /\ UNCHANGED <<appEscaped, ui>>
    /\ UNCHANGED <<analyticsVars, experimentVars, downloadVars>>

\* the Run Experiment button
RunExperimentCall ==
    /\ appPc = Idle
    /\ appPc' = [handler |-> "run_experiment", at |-> "load", upload |-> FALSE]
    /\ appRaised' = NoException
    /\ appRet' = <<>>
    /\ UNCHANGED <<appEscaped, ui>>
    /\ UNCHANGED <<analyticsVars, experimentVars, downloadVars>>

\* the call at the handler's position returns
Returns ==
    LET h == appPc.handler
        i == StepIndex(h, appPc.at)
    IN  /\ IF i < Len(StepsOf(h))
           THEN /\ appPc' = [appPc EXCEPT !.at = StepsOf(h)[i + 1]]
                /\ appRet' = appRet
           ELSE /\ appPc' = [appPc EXCEPT !.at = "returned"]
                /\ appRet' = IF h = "build_all" THEN BuildAllOk ELSE RunExperimentOk
        /\ UNCHANGED <<appRaised, appEscaped, ui>>
        /\ UNCHANGED <<analyticsVars, experimentVars, downloadVars>>

\* an exception of the given kind reaches the handler's try block
Raises(kind) ==
    /\ appRaised' = [at |-> appPc.at, kind |-> kind]
    /\ IF handler_catches(kind)
       THEN /\ appPc' = [appPc EXCEPT !.at = "returned"]
            /\ appRet' = ExceptReturn(appPc.handler, kind)
            /\ UNCHANGED appEscaped
       ELSE /\ appPc' = [appPc EXCEPT !.at = "escaped"]
            /\ appEscaped' = kind
            /\ UNCHANGED appRet
    /\ UNCHANGED ui
    /\ UNCHANGED <<analyticsVars, experimentVars, downloadVars>>

\* _read_uploaded_csv and the unique() calls on the uploaded frame
ReadUploadedCsv ==
    /\ appPc.handler = "build_all"
    /\ appPc.at = "load"
    /\ appPc.upload
    /\ \/ Returns
       \/ \E kind \in ExceptionKinds : Raises(kind)

\* ensure_data, and the handler's "if err:" return
EnsureData ==
    /\ appPc.handler \in {"build_all", "run_experiment"}
    /\ appPc.at = "load"
    /\ ~appPc.upload
    /\ \/ Returns
       \/ \E kind \in ExceptionKinds :
            IF ensure_data_catches(kind)
            THEN /\ appRaised' = [at |-> "ensure_data", kind |-> kind]
                 /\ appPc' = [appPc EXCEPT !.at = "returned"]
                 /\ appRet' = ErrReturn(appPc.handler, kind)
                 /\ UNCHANGED <<appEscaped, ui>>
                 /\ UNCHANGED <<analyticsVars, experimentVars, downloadVars>>
            ELSE Raises(kind)

\* every later call of the handler
Step ==
    /\ appPc.handler \in {"build_all", "run_experiment"}
    /\ appPc.at \notin {"load", "returned", "escaped"}
    /\ \/ Returns
       \/ \E kind \in ExceptionKinds : Raises(kind)

\* run_experiment's return on an empty metric frame
NotEnoughData ==
    /\ appPc.handler = "run_experiment"
    /\ appPc.at = "user_metric"
    /\ appPc' = [appPc EXCEPT !.at = "returned"]
    /\ appRet' = RunExperimentInsufficient
    /\ UNCHANGED <<appRaised, appEscaped, ui>>
    /\ UNCHANGED <<analyticsVars, experimentVars, downloadVars>>

\* the returned values are put into the handler's output components
Render ==
    /\ appPc.at = "returned"
    /\ ui' = [ui EXCEPT ![appPc.handler] = appRet]
    /\ appPc' = Idle
    /\ UNCHANGED <<appRaised, appEscaped, appRet>>
    /\ UNCHANGED <<analyticsVars, experimentVars, downloadVars>>

NextApp ==
    \/ BuildAllCall
    \/ RunExperimentCall
    \/ ReadUploadedCsv
    \/ EnsureData
    \/ Step
    \/ NotEnoughData
    \/ Render

SpecApp == InitApp /\ [][NextApp]_vars

-----------------------------------------------------------------------------
(* Claims about prepare_events, build_cohorts and product_kpis *)

CountEvents(ev, kind, u, item, t) ==
    Cardinality({i \in 1..Len(ev) :
        /\ ev[i].event = kind /\ ev[i].user_id = u /\ ev[i].item_id = item
        /\ ev[i].ts.date * SECONDS_PER_DAY + ev[i].ts.tod = t})

CountRatings(rt, lo, u, item, t) ==
    Cardinality({i \in 1..Len(rt) :
        /\ rt[i].rating >= lo /\ rt[i].userId = u /\ rt[i].movieId = item
        /\ rt[i].timestamp = t})

CountKind(ev, kind) == Cardinality({i \in 1..Len(ev) : ev[i].event = kind})

\* C1: once prepare_events has run, the log holds exactly one view per rating
\* row, one like per row rated >= 4 and one comment per row rated >= 4.5, and
\* for every (user, item, timestamp) the events of a kind are as many as the
\* rating rows with that user, item and timestamp that qualify for the kind:
\* every event carries the user, item and timestamp of its rating.
C1_EventCounts ==
    pc # "ratings" =>
        /\ CountKind(events, "view") = Len(ratings)
        /\ CountKind(events, "like") = Cardinality({i \in 1..Len(ratings) : ratings[i].rating >= 40})
        /\ CountKind(events, "comment") = Cardinality({i \in 1..Len(ratings) : ratings[i].rating >= 45})
        /\ Len(events) = CountKind(events, "view") + CountKind(events, "like") + CountKind(events, "comment")
        /\ \A r \in Range(ratings) :
              /\ CountEvents(events, "view", r.userId, r.movieId, r.timestamp)
                    = CountRatings(ratings, 0, r.userId, r.movieId, r.timestamp)
              /\ CountEvents(events, "like", r.userId, r.movieId, r.timestamp)
                    = CountRatings(ratings, 40, r.userId, r.movieId, r.timestamp)
              /\ CountEvents(events, "comment", r.userId, r.movieId, r.timestamp)
                    = CountRatings(ratings, 45, r.userId, r.movieId, r.timestamp)

\* a table with a row below 4, a row at 4 and a row at 4.5 has been expanded
C1_Witness ==
    /\ pc = "events"
    /\ {ratings[i].rating : i \in 1..Len(ratings)} = {35, 40, 45}
    /\ Len(events) = 6

\* C2: every cohort that build_cohorts outputs has a row at its own starting
\* period, and there active_users = cohort_size and retention_rate = 1.0.
C2_CohortStartRetention ==
    cohorts.status = "ok" =>
        /\ (events # <<>> => cohorts.rows # <<>>)
        /\ \A r \in Range(cohorts.rows) :
              \E s \in Range(cohorts.rows) :
                 /\ s.cohort = r.cohort
                 /\ s.period = s.cohort
                 /\ s.cohort_size = Float(s.active_users)
                 /\ s.retention_rate = Float(1)

\* a cohort of two users, one of them seen again in the following week
C2_Witness ==
    /\ cohorts.status = "ok"
    /\ \E r \in Range(cohorts.rows) :
          r.period > r.cohort /\ r.cohort_size = Float(2) /\ r.retention_rate = Rat(1, 2)

\* C10: product_kpis returns its KPIs for every non-empty log, with the DAU of
\* every observed date and a defined MAU-proxy value for every observed date.
C10_KpisForEveryLog ==
    (kpis.status # "not_run" /\ events # <<>>) =>
        /\ kpis.status = "ok"
        /\ Len(kpis.dau) = Len(ObservedDates(events))
        /\ Len(kpis.mau_rolling) = Len(kpis.dau)
        /\ \A k \in 1..Len(kpis.dau) :
              /\ kpis.dau[k] = Cardinality(UsersOn(events, ObservedDates(events)[k]))
              /\ ~IsNaN(kpis.mau_rolling[k])

-----------------------------------------------------------------------------
(* Claim about build_funnel *)

\* C3: for a non-empty log the signup count is the number of distinct users,
\* its rate is 1.0, and the activation count and the day-7 count are each at
\* most the signup count.
C3_FunnelCounts ==
    (funnel.status = "ok" /\ events # <<>>) =>
        /\ funnel.users[1] = Cardinality(UserIds(events))
        /\ funnel.rate_vs_signup[1] = Float(1)
        /\ funnel.users[2] <= funnel.users[1]
        /\ funnel.users[3] <= funnel.users[1]

\* two users: one activated (five views within three days), the other back on
\* day 7 with two events while not activated
C3_Witness ==
    /\ funnel.status = "ok"
    /\ funnel.users = <<2, 1, 1>>
    /\ \E i \in 1..Len(events) : events[i].user_id = 2 /\ events[i].ts.date = 7

-----------------------------------------------------------------------------
(* Claims about the experiment engine *)

AssignedRows(a, u) == {k \in 1..Len(a) : a[k].user_id = u}

\* C4: once run_experiment has assigned variants, every user of the event log
\* has exactly one assignment row and every assignment is T or C; every row
\* that simulate_treatment_effect returns is T or C: the variant of the user's
\* assignment row, and C for a user that has none.
C4_VariantsBinaryExhaustive ==
    /\ srm.status = "ok" =>
          /\ \A u \in UserIds(events) : Cardinality(AssignedRows(assignments, u)) = 1
          /\ \A k \in 1..Len(assignments) : assignments[k].variant \in {"T", "C"}
    /\ df.status # "not_run" =>
          /\ {r.user_id : r \in Range(df.rows)} = {r.user_id : r \in Range(m)}
          /\ \A r \in Range(df.rows) :
                /\ r.variant \in {"T", "C"}
                /\ IF AssignedRows(df.given, r.user_id) = {}
                   THEN r.variant = "C"
                   ELSE \E k \in AssignedRows(df.given, r.user_id) : r.variant = df.given[k].variant

\* a direct call in which one user is Treatment and the other has no
\* assignment row and comes out Control
C4_Witness ==
    /\ df.status = "call"
    /\ \E r \in Range(df.rows) : r.variant = "T"
    /\ \E r \in Range(df.rows) :
          AssignedRows(df.given, r.user_id) = {} /\ r.variant = "C"

Secs(ts) == ts.date * SECONDS_PER_DAY + ts.tod

ViewsInWindow(ev, u, w) ==
    LET origin == Min({Secs(ev[i].ts) : i \in RowsOf(ev, u)})
    IN Cardinality({i \in RowsOf(ev, u) :
          /\ ev[i].event = "view"
          /\ origin <= Secs(ev[i].ts)
          /\ Secs(ev[i].ts) <= origin + w * SECONDS_PER_DAY})

\* C5: user_metric(events, W) has exactly one row for every user of the log,
\* holding the number of that user's view events from the user's own earliest
\* event timestamp t0 to t0 + W days, both ends included.
C5_ViewsInOwnWindow ==
    metric.status = "ok" =>
        /\ {r.user_id : r \in Range(metric.rows)} = UserIds(events)
        /\ \A u \in UserIds(events) :
              /\ Cardinality(AssignedRows(metric.rows, u)) = 1
              /\ \A k \in AssignedRows(metric.rows, u) :
                    metric.rows[k].size = ViewsInWindow(events, u, metric.window)

\* W = 1: user 2 starts at second 1 and has a view exactly one day later, which
\* counts; user 1 starts at second 0 and has a view at that same instant, one
\* second past its window, which does not
C5_Witness ==
    /\ metric.status = "ok"
    /\ metric.window = 1
    /\ \E i \in RowsOf(events, 1) : Secs(events[i].ts) = 0
    /\ \E i \in RowsOf(events, 1) : Secs(events[i].ts) = SECONDS_PER_DAY + 1
    /\ \E i \in RowsOf(events, 2) : Secs(events[i].ts) = SECONDS_PER_DAY + 1
    /\ \A i \in RowsOf(events, 2) : Secs(events[i].ts) >= 1
    /\ \E i \in RowsOf(events, 2) : Secs(events[i].ts) = 1
    /\ \E k \in 1..Len(metric.rows) : metric.rows[k].user_id = 1 /\ metric.rows[k].size = 1
    /\ \E k \in 1..Len(metric.rows) : metric.rows[k].user_id = 2 /\ metric.rows[k].size = 2

SameInputs(a, b) == a.users = b.users /\ a.seed = b.seed /\ a.p_treat = b.p_treat

\* C8: two random_assign_users calls with the same seed, p_treat and user list
\* return the same table, whatever was called before; the uniform draws are a
\* function of the seed; and each user is T exactly when its draw is < p_treat,
\* C otherwise.
C8_AssignmentDeterministic ==
    /\ \A i, j \in 1..Len(calls) :
          /\ SameInputs(calls[i], calls[j]) => calls[i].frame = calls[j].frame
          /\ calls[i].seed = calls[j].seed =>
                \A k \in 1..Min({Len(calls[i].draws), Len(calls[j].draws)}) :
                    calls[i].draws[k] = calls[j].draws[k]
    /\ \A i \in 1..Len(calls) :
          /\ Len(calls[i].frame) = Len(calls[i].users)
          /\ \A k \in 1..Len(calls[i].users) :
                /\ calls[i].frame[k].user_id = calls[i].users[k]
                /\ calls[i].frame[k].variant = (IF calls[i].draws[k] < calls[i].p_treat THEN "T" ELSE "C")

\* the same call made twice, on two users, one drawn into each arm
C8_Witness ==
    /\ Len(calls) = 2
    /\ SameInputs(calls[1], calls[2])
    /\ calls[1].p_treat = 50
    /\ {r.variant : r \in Range(calls[2].frame)} = {"T", "C"}

CellCount(a, v) == Cardinality({k \in 1..Len(a) : a[k].variant = v})

\* C9: srm_check's statistic is (nT - E)^2/E + (nC - E)^2/E with E = (nT + nC)/2,
\* which is (nT - nC)^2 / (nT + nC); the result is the right-tail p-value alone;
\* it is > 0.9 for 500 / 500 and < 0.001 for 900 / 100.
C9_SrmPValue ==
    srm.status = "ok" =>
        LET nT == CellCount(assignments, "T")
            nC == CellCount(assignments, "C")
        IN /\ nT + nC > 0 => srm.chi2 = Rat((nT - nC) * (nT - nC), nT + nC)
           /\ nT + nC > 0 => ~srm.p.nan /\ srm.p.lo <= srm.p.hi
           /\ (nT = nC /\ nT > 0) => srm.p.lo = 1000000
           /\ (nT = 500 /\ nC = 500) => srm.p.lo > 900000
           /\ (nT = 900 /\ nC = 100) => srm.p.hi < 1000

C9_Witness ==
    /\ srm.status = "ok"
    /\ CellCount(assignments, "T") = 900
    /\ CellCount(assignments, "C") = 100
    /\ srm.chi2 = Float(640)
    /\ srm.p.hi < 1000

-----------------------------------------------------------------------------
(* Claim about download_movielens *)

\* C6: a call made while ratings.csv, users.csv and movies.csv all exist
\* returns at once, fetching nothing and writing nothing; and whatever calls
\* came before, failed ones included, a call that has returned normally leaves
\* all three CSV files present.
C6_DownloadIdempotent ==
    /\ [][(dlPc = "idle" /\ dlCalls' = dlCalls + 1 /\ AllCsvsExist)
            => (dlPc' = "returned" /\ fetches' = fetches /\ writes' = writes /\ fs' = fs)]_vars
    /\ [](dlPc = "returned" => \A f \in Csvs : fs[f] # "absent")

\* the first call failed while saving, the second fetched again and saved all
\* three files, the third returned without fetching
C6_Witness ==
    /\ dlPc = "returned"
    /\ dlCalls = 3
    /\ fetches = 2
    /\ writes = 6
    /\ \A f \in Csvs : fs[f] = "written"

-----------------------------------------------------------------------------
(* Claim about build_all and run_experiment *)

\* C7: no exception raised inside build_all or run_experiment leaves the
\* handler; the handler returns an error message naming the exception and no
\* result values: build_all's four outputs are None, run_experiment's plot is
\* None and its table is empty.
C7_FailuresReported ==
    /\ appEscaped = "none"
    /\ (appPc.at = "returned" /\ appRaised.kind # "none") =>
         IF appPc.handler = "build_all"
         THEN /\ Len(appRet) = 5
              /\ \A i \in 1..4 : appRet[i] = None
              /\ appRet[5].mark = "error"
              /\ appRet[5].e = appRaised.kind
         ELSE /\ Len(appRet) = 3
              /\ appRet[1].mark = "error"
              /\ appRet[1].e = appRaised.kind
              /\ appRet[2] = None
              /\ appRet[3] = EmptyDataFrame

\* product_kpis raised ValueError on an uploaded log, after an experiment run
\* whose statistics raised had shown its own error
C7_Witness ==
    /\ appPc = [handler |-> "build_all", at |-> "returned", upload |-> TRUE]
    /\ appRaised = [at |-> "product_kpis", kind |-> "ValueError"]
    /\ appRet = ExceptReturn("build_all", "ValueError")
    /\ ui.run_experiment = ExceptReturn("run_experiment", "KeyError")

====
